---- MODULE Spec2Model ----
(***************************************************************************)
(* PairDropWsServer (src/server/ws-server.js, the class at lines 555-1146):*)
(* the room registry, the pair-key directory, the keep-alive supervisor    *)
(* and the connection lifecycle.  Every handler runs to completion (node's *)
(* event loop), so every handler is one action; a handler's sequential     *)
(* code is a chain of operators st -> st over the record of the server's   *)
(* state.                                                                  *)
(***************************************************************************)
EXTENDS Integers, Sequences, FiniteSets, TLC

\* ------------------------------------------------------------------------
\* The environment: connections, the identity the cookie gives them, values
\* a client can put in a message.
\* ------------------------------------------------------------------------

\* Peer objects (one per accepted connection).  c1 and c2 present the same
\* peerId cookie (a reconnecting client); c3 is another client.
Conns == {"c1", "c2", "c3"}

NoConn == "none"

IdOf(c) == IF c = "c3" THEN "B" ELSE "A"

IpOf(c) == "10.0.0.1"

\* JavaScript's null and undefined, as values of a field or of a message key.
Null == "<null>"

Undefined == "<undefined>"

\* if (!x): the falsy values a string-valued field can take.
Truthy(v) == v \notin {Null, Undefined, ""}

\* obj[v]: a property key is the string form of the value.
ToKey(v) == IF v = Undefined THEN "undefined" ELSE IF v = Null THEN "null" ELSE v

\* The strings a client can list in room-secrets: their length, and whether
\* all their code points are within 0..127.
StrLen(s) ==
    CASE s = "S1" -> 64
      [] s = "S2" -> 256
      [] s = "L257" -> 257
      [] s = "U64" -> 64
      [] s = "abcde" -> 5
      [] s = "fghij" -> 5
      [] s = "" -> 0
      [] OTHER -> 256

IsAscii(s) == s # "U64"

\* Secrets minted by randomizer.getRandomString(256).
MintedSecrets == {"M1", "M2"}

\* Ids minted by randomizer.getRandomString(5, true).toLowerCase().
PublicIds == {"abcde", "fghij"}

\* message.publicRoomId of join-public-room: an id, the empty string, absent.
ClientPublicIds == PublicIds \cup {"", Undefined}

\* message.roomSecrets of room-secrets.
RoomSecretLists ==
    {<<"S1">>, <<"S1", "S2">>, <<"abcde", "S2">>, <<"L257", "U64">>}

\* The secrets clients keep in their stores and can name in
\* room-secrets-deleted and regenerate-room-secret.
StoredSecrets == {"S1", "S2"}

\* socket.readyState: the code tests for 1 (OPEN); a socket that the client
\* closes or that terminate() destroys is CLOSING until its 'close' event has
\* been delivered, and CLOSED after.  NotAccepted: no connection yet.
OPEN == 1

NotAccepted == OPEN - 1

CLOSING == OPEN + 1

CLOSED == OPEN + 2

\* ------------------------------------------------------------------------
\* State
\* ------------------------------------------------------------------------
VARIABLES
    peers,            \* Peer objects: readyState, roomSecrets, publicRoomId, pairKey
    rooms,            \* this._rooms: roomId -> entries in insertion order
    roomSecrets,      \* this._roomSecrets: pairKey -> [roomSecret, creator]
    keepAliveTimers,  \* this._keepAliveTimers: peerId -> [timer, lastBeat]
    timers,           \* pending setTimeout callbacks: conn -> due time, or NoTimer
    now,              \* wall clock (ms)
    out,              \* frames the last handler passed to _send, in order
    event,            \* the event the last handler handled: its type, its
                      \* connection and the fields of its message
    heard,            \* conn -> when it was accepted or last sent a pong (ms)
    wsFallback        \* this._conf.wsFallback

vars == <<peers, rooms, roomSecrets, keepAliveTimers, timers, now, out, event, heard, wsFallback>>

NoTimer == 0 - 1

\* let timeout = 2000
Timeout == 2000

\* Date.now() - lastBeat > 3 * timeout
BeatLimitFactor == 3

TimeStep == Timeout \div 2

StartTime == Timeout

\* The server's state as one record, threaded through a handler's statements.
State ==
    [peers |-> peers, rooms |-> rooms, roomSecrets |-> roomSecrets,
     keepAliveTimers |-> keepAliveTimers, timers |-> timers, out |-> <<>>,
     wsFallback |-> wsFallback]

Commit(st) ==
    /\ peers' = st.peers
    /\ rooms' = st.rooms
    /\ roomSecrets' = st.roomSecrets
    /\ keepAliveTimers' = st.keepAliveTimers
    /\ timers' = st.timers
    /\ out' = st.out
    /\ wsFallback' = st.wsFallback

\* ------------------------------------------------------------------------
\* Frames
\* ------------------------------------------------------------------------
NoKey == <<>>

\* A frame without a sender field.
NoSender == <<>>

Frame(to, type, peerId, roomType, roomId, roomSecret, pairKey, flag, list) ==
    [to |-> to, type |-> type, peerId |-> peerId, roomType |-> roomType,
     roomId |-> roomId, roomSecret |-> roomSecret, pairKey |-> pairKey,
     disconnect |-> flag, peers |-> list, written |-> FALSE,
     msgTo |-> Undefined, sender |-> NoSender, binary |-> FALSE]

Reply(to, type) == Frame(to, type, "", "", "", "", NoKey, FALSE, <<>>)

RoomFrame(to, type, peerId, roomType, roomId, flag, list) ==
    Frame(to, type, peerId, roomType, roomId, "", NoKey, flag, list)

\* _send for a list of frames, in order: a frame for a socket that is not open
\* is passed to _send and dropped there (written = FALSE).
SendAll(st, frames) ==
    [st EXCEPT !.out = @ \o [i \in 1..Len(frames) |->
        [frames[i] EXCEPT !.written = (st.peers[frames[i].to].readyState = OPEN)]]]

Send(st, frame) == SendAll(st, <<frame>>)

\* ------------------------------------------------------------------------
\* Peer (peer.js): the two list operations
\* ------------------------------------------------------------------------
InSeq(x, s) == \E i \in 1..Len(s) : s[i] = x

AddRoomSecret(st, c, s) ==
    IF InSeq(s, st.peers[c].roomSecrets) THEN st
    ELSE [st EXCEPT !.peers[c].roomSecrets = Append(@, s)]

RemoveRoomSecret(st, c, s) ==
    [st EXCEPT !.peers[c].roomSecrets = SelectSeq(@, LAMBDA x: x # s)]

\* ------------------------------------------------------------------------
\* Room registry
\* ------------------------------------------------------------------------
RoomExists(st, key) == key \in DOMAIN st.rooms

\* this._rooms[roomId] && this._rooms[roomId][peerId]
HasEntry(st, key, id) ==
    /\ RoomExists(st, key)
    /\ \E i \in 1..Len(st.rooms[key]) : st.rooms[key][i].id = id

\* this._rooms[roomId][peerId], NoConn for undefined
EntryOf(st, key, id) ==
    IF HasEntry(st, key, id)
    THEN (CHOOSE e \in {st.rooms[key][i] : i \in 1..Len(st.rooms[key])} : e.id = id).peer
    ELSE NoConn

DeleteRoom(st, key) ==
    [st EXCEPT !.rooms = [k \in (DOMAIN st.rooms) \ {key} |-> st.rooms[k]]]

CreateRoom(st, key) ==
    [st EXCEPT !.rooms = [k \in (DOMAIN st.rooms) \cup {key} |->
                            IF k \in DOMAIN st.rooms THEN st.rooms[k] ELSE <<>>]]

\* this._rooms[roomId][peer.id] = peer: an existing key keeps its place, a new
\* key goes last.  tag records the roomType of the join that made the entry.
SetEntry(st, key, c, tag) ==
    LET e == [id |-> IdOf(c), peer |-> c, tag |-> tag]
        r == st.rooms[key]
    IN  IF HasEntry(st, key, IdOf(c))
        THEN [st EXCEPT !.rooms[key] = [i \in 1..Len(r) |-> IF r[i].id = IdOf(c) THEN e ELSE r[i]]]
        ELSE [st EXCEPT !.rooms[key] = Append(r, e)]

\* The leave without the deletion of the emptied room.
_leaveRoomKeepEmpty(st, c, roomType, roomId, disconnect) ==
    LET key == ToKey(roomId)
        rest == SelectSeq(st.rooms[key], LAMBDA e: e.id # IdOf(c))
        st1 == [st EXCEPT !.rooms[key] = rest]
    IN  IF ~HasEntry(st, key, IdOf(c)) THEN st
        ELSE SendAll(st1, [i \in 1..Len(rest) |->
                RoomFrame(rest[i].peer, "peer-left", IdOf(c), roomType, key, disconnect, <<>>)])

\* The leave without the membership test: the occupants of an existing room
\* are notified whether or not the peer was one of them.
_leaveRoomNoGuard(st, c, roomType, roomId, disconnect) ==
    LET key == ToKey(roomId)
        rest == SelectSeq(st.rooms[key], LAMBDA e: e.id # IdOf(c))
        st1 == [st EXCEPT !.rooms[key] = rest]
    IN  IF ~RoomExists(st, key) THEN st
        ELSE IF rest = <<>> THEN DeleteRoom(st1, key)
        ELSE SendAll(st1, [i \in 1..Len(rest) |->
                RoomFrame(rest[i].peer, "peer-left", IdOf(c), roomType, key, disconnect, <<>>)])

_leaveRoom(st, c, roomType, roomId, disconnect) ==
    LET key == ToKey(roomId)
        rest == SelectSeq(st.rooms[key], LAMBDA e: e.id # IdOf(c))
        st1 == [st EXCEPT !.rooms[key] = rest]
    IN  IF ~HasEntry(st, key, IdOf(c)) THEN st
        ELSE IF rest = <<>> THEN DeleteRoom(st1, key)
        ELSE SendAll(st1, [i \in 1..Len(rest) |->
                RoomFrame(rest[i].peer, "peer-left", IdOf(c), roomType, key, disconnect, <<>>)])

\* The notification without the 'peers' snapshot for the joining peer.
_notifyPeersNoSnapshot(st, c, roomType, key) ==
    LET others == SelectSeq(st.rooms[key], LAMBDA e: e.id # IdOf(c))
        joined == [i \in 1..Len(others) |->
                     RoomFrame(others[i].peer, "peer-joined", IdOf(c), roomType, key, FALSE, <<>>)]
    IN  IF ~RoomExists(st, key) THEN st
        ELSE SendAll(st, joined)

_notifyPeers(st, c, roomType, key) ==
    LET others == SelectSeq(st.rooms[key], LAMBDA e: e.id # IdOf(c))
        joined == [i \in 1..Len(others) |->
                     RoomFrame(others[i].peer, "peer-joined", IdOf(c), roomType, key, FALSE, <<>>)]
        snapshot == RoomFrame(c, "peers", "", roomType, key, FALSE,
                          [i \in 1..Len(others) |-> others[i].id])
    IN  IF ~RoomExists(st, key) THEN st
        ELSE Send(SendAll(st, joined), snapshot)

\* The join without the leave of an occupant that joins again.
_joinRoomNoLeave(st, c, roomType, roomId) ==
    LET key == ToKey(roomId)
        st2 == IF ~RoomExists(st, key) THEN CreateRoom(st, key) ELSE st
        st3 == _notifyPeers(st2, c, roomType, key)
    IN  SetEntry(st3, key, c, roomType)

_joinRoom(st, c, roomType, roomId) ==
    LET key == ToKey(roomId)
        st1 == IF HasEntry(st, key, IdOf(c)) THEN _leaveRoom(st, c, roomType, roomId, FALSE) ELSE st
        st2 == IF ~RoomExists(st1, key) THEN CreateRoom(st1, key) ELSE st1
        st3 == _notifyPeers(st2, c, roomType, key)
    IN  SetEntry(st3, key, c, roomType)

_joinIpRoom(st, c) == _joinRoom(st, c, "ip", IpOf(c))

_joinSecretRoom(st, c, roomSecret) ==
    AddRoomSecret(_joinRoom(st, c, "secret", roomSecret), c, roomSecret)

_leaveIpRoom(st, c, disconnect) == _leaveRoom(st, c, "ip", IpOf(c), disconnect)

_leaveSecretRoom(st, c, roomSecret, disconnect) ==
    RemoveRoomSecret(_leaveRoom(st, c, "secret", roomSecret, disconnect), c, roomSecret)

_leavePublicRoom(st, c, disconnect) ==
    IF ~Truthy(st.peers[c].publicRoomId) THEN st
    ELSE [_leaveRoom(st, c, "public-id", st.peers[c].publicRoomId, disconnect)
            EXCEPT !.peers[c].publicRoomId = Null]

_joinPublicRoom(st, c, publicRoomId) ==
    [_joinRoom(_leavePublicRoom(st, c, FALSE), c, "public-id", publicRoomId)
        EXCEPT !.peers[c].publicRoomId = publicRoomId]

RECURSIVE JoinSecretRoomsFrom(_, _, _, _)
JoinSecretRoomsFrom(st, c, list, i) ==
    IF i > Len(list) THEN st
    ELSE JoinSecretRoomsFrom(_joinSecretRoom(st, c, list[i]), c, list, i + 1)

_joinSecretRooms(st, c, list) == JoinSecretRoomsFrom(st, c, list, 1)

\* for (let i=0; i<peer.roomSecrets.length; i++): the length is read again on
\* every round, after _leaveSecretRoom has changed the list.
RECURSIVE LeaveSecretRoomsFrom(_, _, _, _)
LeaveSecretRoomsFrom(st, c, disconnect, i) ==
    IF i > Len(st.peers[c].roomSecrets) THEN st
    ELSE LeaveSecretRoomsFrom(
            _leaveSecretRoom(st, c, st.peers[c].roomSecrets[i], disconnect), c, disconnect, i + 1)

_leaveAllSecretRooms(st, c, disconnect) == LeaveSecretRoomsFrom(st, c, disconnect, 1)

\* ------------------------------------------------------------------------
\* Pair-key directory
\* ------------------------------------------------------------------------
\* crypto.randomInt(1000000, 1999999): min <= n < max
RandomIntMin == 1000000

RandomIntMax == 1999999

RandomInts == {RandomIntMin, RandomIntMin + 7, RandomIntMax - 1}

\* Number.prototype.toString(): the decimal digits, most significant first.
RECURSIVE ToDigits(_)
ToDigits(n) == IF n < 10 THEN <<n>> ELSE Append(ToDigits(n \div 10), n % 10)

\* The digits without .substring(1).
KeyOfNoSubstring(n) == ToDigits(n)

\* .toString().substring(1)
KeyOf(n) == Tail(ToDigits(n))

\* The longest run of draws of one allocation the model follows.
MaxDraws == 2

DrawSeqs == UNION {[1..k -> RandomInts] : k \in 1..MaxDraws}

\* The first draw, taken or not.
DrawOnce(st, d, i) == KeyOf(d[i])

\* do { pairKey = ... } while (pairKey in this._roomSecrets): the loop over the
\* draws d[1], d[2], ...; <<>> when every draw of d is taken (the loop goes on).
RECURSIVE DrawLoop(_, _, _)
DrawLoop(st, d, i) ==
    IF i > Len(d) THEN NoKey
    ELSE IF KeyOf(d[i]) \in DOMAIN st.roomSecrets THEN DrawLoop(st, d, i + 1)
    ELSE KeyOf(d[i])

\* The key _createPairKey returns for the draws d.
AllocatedKey(st, d) == DrawLoop(st, d, 1)

_createPairKey(st, c, roomSecret, d) ==
    LET pairKey == AllocatedKey(st, d)
    IN  [st EXCEPT !.roomSecrets =
            [k \in (DOMAIN st.roomSecrets) \cup {pairKey} |->
                IF k = pairKey THEN [roomSecret |-> roomSecret, creator |-> c]
                ELSE st.roomSecrets[k]]]

\* The removal without this._roomSecrets[pairKey].creator.pairKey = null.
_removePairKeyNoBackLink(st, pairKey) ==
    IF pairKey \in DOMAIN st.roomSecrets
    THEN [st EXCEPT !.roomSecrets = [k \in (DOMAIN st.roomSecrets) \ {pairKey} |-> st.roomSecrets[k]]]
    ELSE st

\* pairKey is a key (a digit sequence) or NoKey (null).
_removePairKey(st, pairKey) ==
    IF pairKey \in DOMAIN st.roomSecrets
    THEN [st EXCEPT !.peers[st.roomSecrets[pairKey].creator].pairKey = NoKey,
                    !.roomSecrets = [k \in (DOMAIN st.roomSecrets) \ {pairKey} |-> st.roomSecrets[k]]]
    ELSE st

\* ------------------------------------------------------------------------
\* Keep-alive supervisor.  t is the value Date.now() returns in the handler.
\* ------------------------------------------------------------------------
HasRecord(st, id) == id \in DOMAIN st.keepAliveTimers

\* clearTimeout(this._keepAliveTimers[peer.id].timer): the record's timer is
\* the handle of the last setTimeout made for this peerId, named by the
\* connection whose tick it is.
_cancelKeepAlive(st, c) ==
    IF HasRecord(st, IdOf(c)) /\ st.keepAliveTimers[IdOf(c)].timer # NoConn
    THEN [st EXCEPT !.timers[st.keepAliveTimers[IdOf(c)].timer] = NoTimer]
    ELSE st

DeleteRecord(st, id) ==
    [st EXCEPT !.keepAliveTimers = [k \in (DOMAIN st.keepAliveTimers) \ {id} |-> st.keepAliveTimers[k]]]

_setKeepAliveTimerToNow(st, c, t) ==
    IF HasRecord(st, IdOf(c)) /\ st.keepAliveTimers[IdOf(c)].lastBeat # 0
    THEN [st EXCEPT !.keepAliveTimers[IdOf(c)].lastBeat = t]
    ELSE st

\* ------------------------------------------------------------------------
\* Connection lifecycle
\* ------------------------------------------------------------------------
\* sender.socket.terminate(): the socket is destroyed; its 'close' event follows.
Terminate(st, c) == [st EXCEPT !.peers[c].readyState = CLOSING]

\* The disconnect that leaves the pending timer alone.
_disconnectKeepTimer(st, c) ==
    LET st1 == [_removePairKey(st, st.peers[c].pairKey) EXCEPT !.peers[c].pairKey = NoKey]
        st2 == DeleteRecord(st1, IdOf(c))
        st3 == _leaveIpRoom(st2, c, TRUE)
        st4 == _leaveAllSecretRooms(st3, c, TRUE)
        st5 == _leavePublicRoom(st4, c, TRUE)
    IN  IF st5.peers[c].readyState = OPEN THEN Terminate(st5, c) ELSE st5

_disconnect(st, c) ==
    LET st1 == [_removePairKey(st, st.peers[c].pairKey) EXCEPT !.peers[c].pairKey = NoKey]
        st2 == DeleteRecord(_cancelKeepAlive(st1, c), IdOf(c))
        st3 == _leaveIpRoom(st2, c, TRUE)
        st4 == _leaveAllSecretRooms(st3, c, TRUE)
        st5 == _leavePublicRoom(st4, c, TRUE)
    IN  IF st5.peers[c].readyState = OPEN THEN Terminate(st5, c) ELSE st5

_keepAlive(st, c, t) ==
    LET id == IdOf(c)
        st1 == _cancelKeepAlive(st, c)
        st2 == IF ~HasRecord(st1, id)
               THEN [st1 EXCEPT !.keepAliveTimers =
                        [k \in (DOMAIN st1.keepAliveTimers) \cup {id} |->
                            IF k = id THEN [timer |-> NoConn, lastBeat |-> t]
                            ELSE st1.keepAliveTimers[k]]]
               ELSE st1
    IN  IF t - st2.keepAliveTimers[id].lastBeat > BeatLimitFactor * Timeout
        THEN _disconnect(st2, c)
        ELSE [Send(st2, Reply(c, "ping"))
                EXCEPT !.keepAliveTimers[id].timer = c, !.timers[c] = t + Timeout]

\* The handler with its two messages in the other order.
_onConnectionNameFirst(st, c, t) ==
    LET st1 == _keepAlive([st EXCEPT !.peers[c].readyState = OPEN], c, t)
    IN  Send(Send(st1, Reply(c, "display-name")), Reply(c, "ws-config"))

_onConnection(st, c, t) ==
    LET st1 == _keepAlive([st EXCEPT !.peers[c].readyState = OPEN], c, t)
    IN  Send(Send(st1, Reply(c, "ws-config")), Reply(c, "display-name"))

\* ------------------------------------------------------------------------
\* Message handlers
\* ------------------------------------------------------------------------
\* /^[\x00-\x7F]{64,256}$/.test(roomSecret)
ValidRoomSecret(s) == IsAscii(s) /\ StrLen(s) >= 64 /\ StrLen(s) <= 256

_onRoomSecrets(st, c, list) ==
    LET kept == SelectSeq(list, ValidRoomSecret)
    IN  IF Len(kept) = 0 THEN st ELSE _joinSecretRooms(st, c, kept)

\* for (const peerId in room): room is the entry read before the loop; every
\* round removes the peer it visits.
RECURSIVE DeleteSecretRoomFrom(_, _, _, _)
DeleteSecretRoomFrom(st, room, roomSecret, i) ==
    IF i > Len(room) THEN st
    ELSE LET peer == room[i].peer
             st1 == _leaveSecretRoom(st, peer, roomSecret, TRUE)
             st2 == Send(st1, Frame(peer, "secret-room-deleted", "", "", "", roomSecret, NoKey, FALSE, <<>>))
         IN  DeleteSecretRoomFrom(st2, room, roomSecret, i + 1)

_deleteSecretRoom(st, roomSecret) ==
    IF ~RoomExists(st, ToKey(roomSecret)) THEN st
    ELSE DeleteSecretRoomFrom(st, st.rooms[ToKey(roomSecret)], roomSecret, 1)

RECURSIVE RoomSecretsDeletedFrom(_, _, _)
RoomSecretsDeletedFrom(st, list, i) ==
    IF i > Len(list) THEN st
    ELSE RoomSecretsDeletedFrom(_deleteSecretRoom(st, list[i]), list, i + 1)

\* The handler with its loop begun at the second secret of the list.
_onRoomSecretsDeletedFromSecond(st, c, list) == RoomSecretsDeletedFrom(st, list, 2)

_onRoomSecretsDeleted(st, c, list) == RoomSecretsDeletedFrom(st, list, 1)

\* The handler without the removal of the sender's prior key.
_onPairDeviceInitiateKeepPrior(st, c, roomSecret, d) ==
    LET pairKey == AllocatedKey(st, d)
        st1 == _createPairKey(st, c, roomSecret, d)
        st3 == [st1 EXCEPT !.peers[c].pairKey = pairKey]
        st4 == Send(st3, Frame(c, "pair-device-initiated", "", "", "", roomSecret, pairKey, FALSE, <<>>))
    IN  _joinSecretRoom(st4, c, roomSecret)

_onPairDeviceInitiate(st, c, roomSecret, d) ==
    LET pairKey == AllocatedKey(st, d)
        st1 == _createPairKey(st, c, roomSecret, d)
        st2 == IF st1.peers[c].pairKey # NoKey THEN _removePairKey(st1, st1.peers[c].pairKey) ELSE st1
        st3 == [st2 EXCEPT !.peers[c].pairKey = pairKey]
        st4 == Send(st3, Frame(c, "pair-device-initiated", "", "", "", roomSecret, pairKey, FALSE, <<>>))
    IN  _joinSecretRoom(st4, c, roomSecret)

\* The handler without the test of the sender against the key's creator.
_onPairDeviceJoinNoSelfCheck(st, c, pairKey, limited) ==
    IF limited THEN Send(st, Reply(c, "join-key-rate-limit"))
    ELSE IF pairKey \notin DOMAIN st.roomSecrets
    THEN Send(st, Reply(c, "pair-device-join-key-invalid"))
    ELSE LET roomSecret == st.roomSecrets[pairKey].roomSecret
             creator == st.roomSecrets[pairKey].creator
             st1 == _removePairKey(st, pairKey)
             st2 == Send(st1, Frame(c, "pair-device-joined", IdOf(creator), "", "", roomSecret, NoKey, FALSE, <<>>))
             st3 == Send(st2, Frame(creator, "pair-device-joined", IdOf(c), "", "", roomSecret, NoKey, FALSE, <<>>))
             st4 == _joinSecretRoom(st3, c, roomSecret)
         IN  _removePairKey(st4, st4.peers[c].pairKey)

\* The handler without this._removePairKey(message.pairKey).
_onPairDeviceJoinKeepKey(st, c, pairKey, limited) ==
    IF limited THEN Send(st, Reply(c, "join-key-rate-limit"))
    ELSE IF pairKey \notin DOMAIN st.roomSecrets \/ IdOf(c) = IdOf(st.roomSecrets[pairKey].creator)
    THEN Send(st, Reply(c, "pair-device-join-key-invalid"))
    ELSE LET roomSecret == st.roomSecrets[pairKey].roomSecret
             creator == st.roomSecrets[pairKey].creator
             st2 == Send(st, Frame(c, "pair-device-joined", IdOf(creator), "", "", roomSecret, NoKey, FALSE, <<>>))
             st3 == Send(st2, Frame(creator, "pair-device-joined", IdOf(c), "", "", roomSecret, NoKey, FALSE, <<>>))
             st4 == _joinSecretRoom(st3, c, roomSecret)
         IN  _removePairKey(st4, st4.peers[c].pairKey)

_onPairDeviceJoin(st, c, pairKey, limited) ==
    IF limited THEN Send(st, Reply(c, "join-key-rate-limit"))
    ELSE IF pairKey \notin DOMAIN st.roomSecrets \/ IdOf(c) = IdOf(st.roomSecrets[pairKey].creator)
    THEN Send(st, Reply(c, "pair-device-join-key-invalid"))
    ELSE LET roomSecret == st.roomSecrets[pairKey].roomSecret
             creator == st.roomSecrets[pairKey].creator
             st1 == _removePairKey(st, pairKey)
             st2 == Send(st1, Frame(c, "pair-device-joined", IdOf(creator), "", "", roomSecret, NoKey, FALSE, <<>>))
             st3 == Send(st2, Frame(creator, "pair-device-joined", IdOf(c), "", "", roomSecret, NoKey, FALSE, <<>>))
             st4 == _joinSecretRoom(st3, c, roomSecret)
         IN  _removePairKey(st4, st4.peers[c].pairKey)

_onPairDeviceCancel(st, c) ==
    LET pairKey == st.peers[c].pairKey
    IN  IF pairKey = NoKey THEN st
        ELSE Send(_removePairKey(st, pairKey),
                  Frame(c, "pair-device-canceled", "", "", "", "", pairKey, FALSE, <<>>))

_onCreatePublicRoom(st, c, publicRoomId) ==
    _joinPublicRoom(
        Send(st, RoomFrame(c, "public-room-created", "", "", publicRoomId, FALSE, <<>>)),
        c, publicRoomId)

\* The handler without the test of sender.rateLimitReached().
_onJoinPublicRoomNoLimit(st, c, publicRoomId, createIfInvalid, limited) ==
    IF ~RoomExists(st, ToKey(publicRoomId)) /\ ~createIfInvalid
    THEN Send(st, RoomFrame(c, "public-room-id-invalid", "", "", publicRoomId, FALSE, <<>>))
    ELSE _joinPublicRoom(_leavePublicRoom(st, c, FALSE), c, publicRoomId)

_onJoinPublicRoom(st, c, publicRoomId, createIfInvalid, limited) ==
    IF limited THEN Send(st, Reply(c, "join-key-rate-limit"))
    ELSE IF ~RoomExists(st, ToKey(publicRoomId)) /\ ~createIfInvalid
    THEN Send(st, RoomFrame(c, "public-room-id-invalid", "", "", publicRoomId, FALSE, <<>>))
    ELSE _joinPublicRoom(_leavePublicRoom(st, c, FALSE), c, publicRoomId)

_onLeavePublicRoom(st, c) ==
    Send(_leavePublicRoom(st, c, TRUE), Reply(c, "public-room-left"))

RECURSIVE RegenerateFrom(_, _, _, _, _)
RegenerateFrom(st, room, oldRoomSecret, newRoomSecret, i) ==
    IF i > Len(room) THEN st
    ELSE LET peer == room[i].peer
             st1 == Send(st, Frame(peer, "room-secret-regenerated", "", "", oldRoomSecret,
                                   newRoomSecret, NoKey, FALSE, <<>>))
         IN  RegenerateFrom(RemoveRoomSecret(st1, peer, oldRoomSecret), room,
                            oldRoomSecret, newRoomSecret, i + 1)

\* The handler without delete this._rooms[oldRoomSecret].
_onRegenerateRoomSecretKeepRoom(st, c, oldRoomSecret, newRoomSecret) ==
    LET key == ToKey(oldRoomSecret)
    IN  IF RoomExists(st, key)
        THEN RegenerateFrom(st, st.rooms[key], oldRoomSecret, newRoomSecret, 1)
        ELSE st

_onRegenerateRoomSecret(st, c, oldRoomSecret, newRoomSecret) ==
    LET key == ToKey(oldRoomSecret)
    IN  IF RoomExists(st, key)
        THEN DeleteRoom(RegenerateFrom(st, st.rooms[key], oldRoomSecret, newRoomSecret, 1), key)
        ELSE st

\* ------------------------------------------------------------------------
\* Signal and relay
\* ------------------------------------------------------------------------
\* Peer.isValidUuid (peer.js): the ids of the peers and "Z", an id of no peer,
\* are UUID-shaped.
IsValidUuid(v) == v \in {"A", "B", "Z"}

\* peer.rtcSupported (peer.js)
RtcSupported(c) == c # "c3"

\* message.sender = {id: sender.id, rtcSupported: sender.rtcSupported}
SenderTag(c) == <<IdOf(c), RtcSupported(c)>>

\* The fields of a message that the relay reads; the rest is payload.
Message(type, to, roomType, roomId) ==
    [type |-> type, to |-> to, roomType |-> roomType, roomId |-> roomId]

\* The relayed message with its 'to' field left in.
RelayedKeepTo(recipient, c, message) ==
    [Frame(recipient, message.type, "", message.roomType, message.roomId, "", NoKey, FALSE, <<>>)
        EXCEPT !.sender = SenderTag(c), !.msgTo = message.to]

\* delete message.to; message.sender = {...}
Relayed(recipient, c, message) ==
    [Frame(recipient, message.type, "", message.roomType, message.roomId, "", NoKey, FALSE, <<>>)
        EXCEPT !.sender = SenderTag(c)]

\* The relay without the lookup of the recipient in the room: the recipient
\* is looked up among all peers.
_signalAndRelayAnyRoom(st, c, message) ==
    LET holders == {k \in DOMAIN st.rooms : HasEntry(st, k, message.to)}
    IN  IF Truthy(message.to) /\ IsValidUuid(message.to) /\ holders # {}
        THEN Send(st, Relayed(EntryOf(st, CHOOSE k \in holders : TRUE, message.to), c, message))
        ELSE st

_signalAndRelay(st, c, message) ==
    LET room == ToKey(IF message.roomType = "ip" THEN IpOf(c) ELSE message.roomId)
    IN  IF Truthy(message.to) /\ IsValidUuid(message.to) /\ RoomExists(st, room)
        THEN IF ~HasEntry(st, room, message.to) THEN st
             ELSE Send(st, Relayed(EntryOf(st, room, message.to), c, message))
        ELSE st

\* The relay types handled without the test of this._conf.wsFallback.
_onRelayTypeUngated(st, c, message) == _signalAndRelay(st, c, message)

\* case 'request': ... case 'ws-chunk-binary':
_onRelayType(st, c, message) ==
    IF st.wsFallback THEN _signalAndRelay(st, c, message) ELSE st

\* binaryData.slice(37, 101).toString('utf8').trim(): the 64-byte field holds
\* a 64-character secret, or a shorter room id padded with spaces.
Trim(field) == IF field = "abcde   " THEN "abcde" ELSE field

\* binaryData.slice(37, 101).toString('utf8') of a frame whose sender wrote
\* the room key s from byte 37 on: the field is 64 bytes, so a key of up to 64
\* characters is read whole and a longer one is cut to its first 64.
Slice64(s) ==
    IF StrLen(s) <= 64 THEN s
    ELSE CASE s = "S2" -> "S2[0..63]"
           [] s = "M1" -> "M1[0..63]"
           [] s = "M2" -> "M2[0..63]"
           [] OTHER -> "[0..63]"

\* The binary relay without the test of this._conf.wsFallback.
_relayBinaryMessageUngated(st, c, data) ==
    LET room == IF data.roomType = "i" THEN IpOf(c) ELSE Trim(data.roomId)
        recipient == EntryOf(st, room, data.to)
    IN  IF IsValidUuid(data.to) /\ RoomExists(st, room) /\ HasEntry(st, room, data.to)
           /\ st.peers[recipient].readyState = OPEN
        THEN [st EXCEPT !.out = Append(@,
                [Frame(recipient, "binary", "", "", "", "", NoKey, FALSE, <<>>)
                    EXCEPT !.binary = TRUE, !.written = TRUE])]
        ELSE st

\* The binary relay without the test of the recipient's socket.
_relayBinaryMessageAnySocket(st, c, data) ==
    IF ~st.wsFallback THEN st
    ELSE LET room == IF data.roomType = "i" THEN IpOf(c) ELSE Trim(data.roomId)
             recipient == EntryOf(st, room, data.to)
         IN  IF IsValidUuid(data.to) /\ RoomExists(st, room) /\ HasEntry(st, room, data.to)
             THEN [st EXCEPT !.out = Append(@,
                     [Frame(recipient, "binary", "", "", "", "", NoKey, FALSE, <<>>)
                         EXCEPT !.binary = TRUE, !.written = TRUE])]
             ELSE st

\* recipient.socket.send(binaryData.slice(101), {binary: true})
_relayBinaryMessage(st, c, data) ==
    IF ~st.wsFallback THEN st
    ELSE LET room == IF data.roomType = "i" THEN IpOf(c) ELSE Trim(data.roomId)
             recipient == EntryOf(st, room, data.to)
         IN  IF IsValidUuid(data.to) /\ RoomExists(st, room) /\ HasEntry(st, room, data.to)
                /\ st.peers[recipient].readyState = OPEN
             THEN [st EXCEPT !.out = Append(@,
                     [Frame(recipient, "binary", "", "", "", "", NoKey, FALSE, <<>>)
                         EXCEPT !.binary = TRUE, !.written = TRUE])]
             ELSE st

\* ------------------------------------------------------------------------
\* Actions: one per event the server handles
\* ------------------------------------------------------------------------
Event(type, c, roomId, pairKey, flag, limited) ==
    [type |-> type, conn |-> c, roomId |-> roomId, pairKey |-> pairKey,
     flag |-> flag, limited |-> limited, to |-> "", roomType |-> ""]

Plain(type, c) == Event(type, c, "", NoKey, FALSE, FALSE)

Started(conf) ==
    /\ wsFallback = conf
    /\ peers = [c \in Conns |->
                  [readyState |-> NotAccepted, roomSecrets |-> <<>>,
                   publicRoomId |-> Null, pairKey |-> NoKey]]
    /\ rooms = [k \in {} |-> <<>>]
    /\ roomSecrets = [k \in {} |-> [roomSecret |-> "", creator |-> NoConn]]
    /\ keepAliveTimers = [k \in {} |-> [timer |-> NoConn, lastBeat |-> 0]]
    /\ timers = [c \in Conns |-> NoTimer]
    /\ now = StartTime
    /\ out = <<>>
    /\ event = Plain("init", NoConn)
    /\ heard = [c \in Conns |-> 0]

\* The instance as the Dockerfile configures it: WS_FALLBACK=false.
Init == Started(FALSE)

IsOpen(c) == peers[c].readyState = OPEN

\* A handler that reads no clock: the state after it, and the event it handled.
Handle(st, ev) ==
    /\ Commit(st)
    /\ event' = ev
    /\ UNCHANGED <<now, heard>>

\* randomizer.getRandomString(256) returns a string found nowhere in the state.
SecretsInUse ==
    (DOMAIN rooms)
        \cup UNION {{peers[c].roomSecrets[i] : i \in 1..Len(peers[c].roomSecrets)} : c \in Conns}
        \cup {roomSecrets[k].roomSecret : k \in DOMAIN roomSecrets}

FreshSecrets == MintedSecrets \ SecretsInUse

HasFresh == FreshSecrets # {}

NewSecret == CHOOSE s \in FreshSecrets : TRUE

\* wss 'connection'; c2 is the client of c1 connecting again.
Connect(c) ==
    /\ peers[c].readyState = NotAccepted
    /\ c = "c2" => peers["c1"].readyState # NotAccepted
    /\ Commit(_onConnection(State, c, now))
    /\ event' = Plain("connection", c)
    /\ heard' = [heard EXCEPT ![c] = now]
    /\ UNCHANGED now

\* socket 'message' with type 'disconnect'
MsgDisconnect(c) ==
    /\ IsOpen(c)
    /\ Handle(_disconnect(State, c), Plain("disconnect", c))

MsgPong(c) ==
    /\ IsOpen(c)
    /\ Commit(_setKeepAliveTimerToNow(State, c, now))
    /\ event' = Plain("pong", c)
    /\ heard' = [heard EXCEPT ![c] = now]
    /\ UNCHANGED now

MsgJoinIpRoom(c) ==
    /\ IsOpen(c)
    /\ Handle(_joinIpRoom(State, c), Plain("join-ip-room", c))

MsgRoomSecretsOf(c, lists) ==
    /\ IsOpen(c)
    /\ \E list \in lists :
          Handle(_onRoomSecrets(State, c, list), Plain("room-secrets", c))

MsgRoomSecrets(c) == MsgRoomSecretsOf(c, RoomSecretLists)

\* A client names a secret it holds: one of its store, or one it was sent.
MsgRoomSecretsDeleted(c, secrets) ==
    /\ IsOpen(c)
    /\ \E s \in secrets :
          Handle(_onRoomSecretsDeleted(State, c, <<s>>),
                 Event("room-secrets-deleted", c, s, NoKey, FALSE, FALSE))

MsgRegenerateRoomSecret(c, secrets) ==
    /\ IsOpen(c)
    /\ HasFresh
    /\ \E s \in secrets :
          Handle(_onRegenerateRoomSecret(State, c, s, NewSecret),
                 Event("regenerate-room-secret", c, s, NoKey, FALSE, FALSE))

MsgPairDeviceInitiate(c) ==
    /\ IsOpen(c)
    /\ HasFresh
    /\ \E d \in DrawSeqs :
          /\ AllocatedKey(State, d) # NoKey
          /\ Handle(_onPairDeviceInitiate(State, c, NewSecret, d),
                    Plain("pair-device-initiate", c))

\* message.pairKey: a key of the directory, or one that is in no directory.
ClientPairKeys == (DOMAIN roomSecrets) \cup {KeyOf(RandomIntMax)}

\* limited is what sender.rateLimitReached() returns.
MsgPairDeviceJoin(c) ==
    /\ IsOpen(c)
    /\ \E k \in ClientPairKeys, limited \in BOOLEAN :
          Handle(_onPairDeviceJoin(State, c, k, limited),
                 Event("pair-device-join", c, "", k, FALSE, limited))

MsgPairDeviceCancel(c) ==
    /\ IsOpen(c)
    /\ Handle(_onPairDeviceCancel(State, c), Plain("pair-device-cancel", c))

MsgCreatePublicRoom(c) ==
    /\ IsOpen(c)
    /\ \E id \in PublicIds :
          Handle(_onCreatePublicRoom(State, c, id),
                 Event("create-public-room", c, id, NoKey, FALSE, FALSE))

MsgJoinPublicRoomOf(c, ids) ==
    /\ IsOpen(c)
    /\ \E id \in ids, createIfInvalid \in BOOLEAN, limited \in BOOLEAN :
          Handle(_onJoinPublicRoom(State, c, id, createIfInvalid, limited),
                 Event("join-public-room", c, id, NoKey, createIfInvalid, limited))

MsgJoinPublicRoom(c) == MsgJoinPublicRoomOf(c, ClientPublicIds)

MsgLeavePublicRoom(c) ==
    /\ IsOpen(c)
    /\ Handle(_onLeavePublicRoom(State, c), Plain("leave-public-room", c))

\* The event of a relayed message: its type and its routing fields.
RelayEvent(message, c) ==
    [Event(message.type, c, message.roomId, NoKey, FALSE, FALSE)
        EXCEPT !.to = message.to, !.roomType = message.roomType]

\* message.to: the id of a peer, a UUID-shaped id of no peer, a string that is
\* no UUID, or no field.
RelayTos == {"A", "B", "Z", "bad", Undefined}

\* message.roomType and message.roomId
RelayRooms == {<<"ip", Undefined>>, <<"secret", "S1">>, <<"secret", Undefined>>}

RelayTypes ==
    {"request", "header", "partition", "partition-received", "progress",
     "files-transfer-response", "file-transfer-complete",
     "message-transfer-complete", "text", "display-name-changed", "ws-chunk",
     "ws-chunk-binary"}

\* The routing of a relay type is that of a signal, which MsgSignal follows
\* for every RelayTos and RelayRooms; the relay types are followed to the
\* peers' ids and to no id, in the rooms the peers join.
RelayTypeTos == {"A", "B", "bad"}

RelayTypeRooms == {<<"ip", Undefined>>, <<"secret", "S1">>}

MsgSignal(c) ==
    /\ IsOpen(c)
    /\ \E to \in RelayTos, r \in RelayRooms :
          LET message == Message("signal", to, r[1], r[2])
          IN  Handle(_signalAndRelay(State, c, message), RelayEvent(message, c))

MsgRelayType(c) ==
    /\ IsOpen(c)
    /\ \E type \in RelayTypes, to \in RelayTypeTos, r \in RelayTypeRooms :
          LET message == Message(type, to, r[1], r[2])
          IN  Handle(_onRelayType(State, c, message), RelayEvent(message, c))

\* A binary frame: recipient id, room type byte and room field of its header.
BinaryRooms == {<<"i", "">>, <<"s", "S1">>, <<"s", "abcde   ">>}

MsgBinaryOf(c, fields) ==
    /\ IsOpen(c)
    /\ \E to \in RelayTos \ {Undefined}, r \in fields :
          LET data == Message("binary", to, r[1], r[2])
          IN  Handle(_relayBinaryMessage(State, c, data), RelayEvent(data, c))

MsgBinary(c) == MsgBinaryOf(c, BinaryRooms)

\* socket 'close' of a connection the client closed (or that broke): the
\* listener of _onConnection runs _onDisconnect on the closed socket.
ClientClose(c) ==
    /\ IsOpen(c)
    /\ Handle(_disconnect([State EXCEPT !.peers[c].readyState = CLOSED], c),
              Plain("close", c))

\* socket 'close' of a connection the server terminated.
SocketClose(c) ==
    /\ peers[c].readyState = CLOSING
    /\ Handle(_disconnect([State EXCEPT !.peers[c].readyState = CLOSED], c),
              Plain("close", c))

\* The setTimeout callback of c runs with Date.now() = t.
KeepAliveTimer(c, t) ==
    /\ timers[c] # NoTimer
    /\ Handle(_keepAlive([State EXCEPT !.timers[c] = NoTimer], c, t),
              Plain("keep-alive", c))

\* ------------------------------------------------------------------------
\* Specifications.  The registry, the public rooms and the pairing are
\* followed in one specification each, all with the connection lifecycle;
\* these three do not follow the clock: a tick finds the peer either within
\* the limit or silent for longer than the limit.
\* ------------------------------------------------------------------------
LateReading == now + BeatLimitFactor * Timeout + TimeStep

Tick(c) == \E t \in {now, LateReading} : KeepAliveTimer(c, t)

Lifecycle(c) ==
    \/ Connect(c)
    \/ MsgDisconnect(c)
    \/ ClientClose(c)
    \/ SocketClose(c)
    \/ Tick(c)

\* Secret rooms, for a client, its reconnection and another client.
Next ==
    \E c \in Conns :
        \/ Lifecycle(c)
        \/ MsgRoomSecrets(c)
        \/ MsgRoomSecretsDeleted(c, StoredSecrets)
        \/ MsgRegenerateRoomSecret(c, StoredSecrets)

Spec == Init /\ [][Next]_vars

\* The IP room and public rooms, for two clients.
NextPublic ==
    \E c \in {"c1", "c3"} :
        \/ Lifecycle(c)
        \/ MsgJoinIpRoom(c)
        \/ MsgCreatePublicRoom(c)
        \/ MsgJoinPublicRoom(c)
        \/ MsgLeavePublicRoom(c)

SpecPublic == Init /\ [][NextPublic]_vars

\* Pairing; a client can delete a minted secret once it holds it.
HeldMinted(c) == {s \in MintedSecrets : InSeq(s, peers[c].roomSecrets)}

NextPair ==
    \E c \in Conns :
        \/ Lifecycle(c)
        \/ MsgPairDeviceInitiate(c)
        \/ MsgPairDeviceJoin(c)
        \/ MsgPairDeviceCancel(c)
        \/ MsgRoomSecretsDeleted(c, HeldMinted(c))

SpecPair == Init /\ [][NextPair]_vars

\* The keep-alive supervisor against the clock.  A callback runs at the time
\* it is due, and the clock does not pass a due callback.
MaxTime == 12000

AdvanceTime ==
    /\ now + TimeStep <= MaxTime
    /\ \A c \in Conns : timers[c] # now
    /\ now' = now + TimeStep
    /\ UNCHANGED <<peers, rooms, roomSecrets, keepAliveTimers, timers, heard, wsFallback>>
    /\ out' = <<>>
    /\ event' = Plain("time", NoConn)

TimerDue(c) == timers[c] = now /\ KeepAliveTimer(c, now)

NextKeepAlive ==
    \/ AdvanceTime
    \/ \E c \in {"c1", "c2"} :
        \/ Connect(c)
        \/ MsgPong(c)
        \/ TimerDue(c)
        \/ ClientClose(c)
        \/ SocketClose(c)

SpecKeepAlive == Init /\ [][NextKeepAlive]_vars

\* message.publicRoomId naming a key of another namespace: an IP address, a
\* room secret; and a public room id.
ForeignIds == {IpOf("c1"), "S1", "abcde"}

\* The three namespaces together, for two clients.
NextNamespaces ==
    \E c \in {"c1", "c3"} :
        \/ Connect(c)
        \/ ClientClose(c)
        \/ MsgJoinIpRoom(c)
        \/ MsgRoomSecretsOf(c, {<<"S1">>})
        \/ MsgCreatePublicRoom(c)
        \/ MsgJoinPublicRoomOf(c, ForeignIds)
        \/ MsgLeavePublicRoom(c)

SpecNamespaces == Init /\ [][NextNamespaces]_vars

\* The two handlers behind the rate limiter, for two clients.
NextLimited ==
    \E c \in {"c1", "c3"} :
        \/ Connect(c)
        \/ ClientClose(c)
        \/ MsgPairDeviceInitiate(c)
        \/ MsgPairDeviceJoin(c)
        \/ MsgCreatePublicRoom(c)
        \/ MsgJoinPublicRoomOf(c, PublicIds)

SpecLimited == Init /\ [][NextLimited]_vars

\* Signal and relay between two clients that join the IP room and a secret
\* room, on an instance with wsFallback on or off.
InitRelay == \E conf \in BOOLEAN : Started(conf)

NextRelay ==
    \E c \in {"c1", "c3"} :
        \/ Lifecycle(c)
        \/ MsgJoinIpRoom(c)
        \/ MsgRoomSecretsOf(c, {<<"S1">>})
        \/ MsgSignal(c)
        \/ MsgRelayType(c)
        \/ MsgBinary(c)

SpecRelay == InitRelay /\ [][NextRelay]_vars

\* The headers of binary frames: marker byte and room field.  The field of a
\* frame for a secret room is what fits of the secret; 'p' is a marker other
\* than 'i' and 's'.
BinaryFields ==
    {<<"i", "">>, <<"s", Slice64("S1")>>, <<"s", Slice64("S2")>>, <<"p", "abcde   ">>}

\* Binary frames between two clients that share the IP room, a room of a
\* 64-character secret and a room of a 256-character secret.
NextBinary ==
    \E c \in {"c1", "c3"} :
        \/ Lifecycle(c)
        \/ MsgJoinIpRoom(c)
        \/ MsgRoomSecretsOf(c, {<<"S1">>, <<"S2", "S1">>})
        \/ MsgBinaryOf(c, BinaryFields)

SpecBinary == InitRelay /\ [][NextBinary]_vars

\* ------------------------------------------------------------------------
\* Properties
\* ------------------------------------------------------------------------
Entries(rms, key) ==
    IF key \in DOMAIN rms THEN {rms[key][i] : i \in 1..Len(rms[key])} ELSE {}

\* The registry entry key has an occupant under this peerId.
OccupantId(rms, key, id) == \E e \in Entries(rms, key) : e.id = id

\* The Peer object c is an occupant of the registry entry key.
IsOccupant(rms, key, c) == \E e \in Entries(rms, key) : e.peer = c

RoomsOf(rms, c) == {key \in DOMAIN rms : IsOccupant(rms, key, c)}

Ids == {IdOf(c) : c \in Conns}

AllKeys == {IpOf(c) : c \in Conns} \cup {"S1", "S2"} \cup MintedSecrets
              \cup {ToKey(v) : v \in ClientPublicIds}

\* The join and leave notices about peerId id in room key that frames holds
\* for connection o, in order.
About(frames, o, id, key) ==
    LET sel == SelectSeq(frames, LAMBDA m:
                  /\ m.to = o
                  /\ m.peerId = id
                  /\ m.roomId = key
                  /\ m.type \in {"peer-joined", "peer-left"})
    IN  [i \in 1..Len(sel) |-> sel[i].type]

HasFrame(frames, to, type) ==
    \E i \in 1..Len(frames) : frames[i].to = to /\ frames[i].type = type

\* C1: room-membership symmetry.  A peer that is an occupant of an entry
\* under type 'secret' has the entry's key in its roomSecrets, one under
\* 'public-id' has it as its publicRoomId; and a key recorded on a peer names
\* an entry that holds the peer's id.
C1_MembershipSymmetry ==
    \A c \in Conns, key \in AllKeys :
        /\ (\E e \in Entries(rooms, key) : e.peer = c /\ e.tag = "secret")
              => InSeq(key, peers[c].roomSecrets)
        /\ InSeq(key, peers[c].roomSecrets) => OccupantId(rooms, key, IdOf(c))
        /\ (\E e \in Entries(rooms, key) : e.peer = c /\ e.tag = "public-id")
              => ToKey(peers[c].publicRoomId) = key
        /\ (Truthy(peers[c].publicRoomId) /\ ToKey(peers[c].publicRoomId) = key)
              => OccupantId(rooms, key, IdOf(c))

\* C2: no empty rooms.  Between handlers no key of the registry maps to an
\* entry without occupants.
C2_NoEmptyRooms == \A key \in DOMAIN rooms : Len(rooms[key]) > 0

\* A room-secrets-deleted has evicted the last occupant of its room.
C2_Witness ==
    /\ event.type = "room-secrets-deleted"
    /\ \E i \in 1..Len(out) : out[i].type = "secret-room-deleted"
    /\ event.roomId \notin DOMAIN rooms

\* C3: no stale peer-left on reconnect.  When the new connection cn of a
\* client holds the entry of a secret room that the old connection co of the
\* same peerId still has in its roomSecrets, the disconnect of co (its close,
\* its heartbeat timeout) emits no peer-left for that peerId in the room and
\* leaves cn the occupant.
C3_NoStalePeerLeft ==
    [][\A cn \in Conns, co \in Conns, key \in DOMAIN rooms :
          (/\ cn # co
           /\ IdOf(cn) = IdOf(co)
           /\ IsOpen(cn)
           /\ IsOccupant(rooms, key, cn)
           /\ InSeq(key, peers[co].roomSecrets)
           /\ event'.conn = co
           /\ event'.type \in {"close", "keep-alive"})
          => /\ IsOccupant(rooms', key, cn)
             /\ \A i \in 1..Len(out') :
                   ~(out'[i].type = "peer-left" /\ out'[i].peerId = IdOf(cn)
                        /\ out'[i].roomId = key)]_vars

\* C4: leave-before-rejoin.  An observer o that is an occupant of a room is
\* sent, by a join of peer id to that room, peer-left then peer-joined if id
\* was an occupant already, and peer-joined alone if it was not.
C4_LeaveBeforeRejoin ==
    [][\A o \in Conns, id \in Ids, key \in DOMAIN rooms :
          (/\ IsOccupant(rooms, key, o)
           /\ IdOf(o) # id
           /\ IdOf(event'.conn) = id
           /\ "peer-joined" \in {About(out', o, id, key)[i] : i \in 1..Len(About(out', o, id, key))})
          => About(out', o, id, key) =
                IF OccupantId(rooms, key, id) THEN <<"peer-left", "peer-joined">>
                ELSE <<"peer-joined">>]_vars

\* A peer has joined again a room in which an observer saw it join.
C4_Witness ==
    \E o \in Conns, key \in DOMAIN rooms :
        /\ event.type = "room-secrets"
        /\ IsOccupant(rooms, key, o)
        /\ About(out, o, IdOf(event.conn), key) = <<"peer-left", "peer-joined">>

\* C5: cascading cleanup.  A connection on which disconnect has run is an
\* occupant of no registry entry, holds no room secret and no public room.
C5_CascadingCleanup ==
    \A c \in Conns :
        peers[c].readyState \in {CLOSING, CLOSED}
            => /\ RoomsOf(rooms, c) = {}
               /\ peers[c].roomSecrets = <<>>
               /\ peers[c].publicRoomId = Null

\* C6: at most one public room.  The entries a peer occupies under type
\* 'public-id' are at most one, the one its publicRoomId names.
PublicRoomsOf(c) ==
    {key \in DOMAIN rooms : \E e \in Entries(rooms, key) : e.peer = c /\ e.tag = "public-id"}

C6_AtMostOnePublicRoom ==
    \A c \in Conns :
        /\ Cardinality(PublicRoomsOf(c)) <= 1
        /\ \A key \in PublicRoomsOf(c) : key = ToKey(peers[c].publicRoomId)

\* C7: pair-key back-links.  Every directory entry has a creator whose
\* pairKey is the entry's key, and every pairKey that is set names an entry
\* whose creator is that peer (so a removed entry's creator no longer holds
\* its key).
C7_PairKeyBackLink ==
    /\ \A k \in DOMAIN roomSecrets : peers[roomSecrets[k].creator].pairKey = k
    /\ \A c \in Conns :
          peers[c].pairKey # NoKey
            => /\ peers[c].pairKey \in DOMAIN roomSecrets
               /\ roomSecrets[peers[c].pairKey].creator = c

\* A cancel has removed an entry while another entry stays.
C7_Witness ==
    /\ event.type = "pair-device-cancel"
    /\ HasFrame(out, event.conn, "pair-device-canceled")
    /\ peers[event.conn].pairKey = NoKey
    /\ DOMAIN roomSecrets # {}

\* C8: unique pair keys.  The key a pair-device-initiate returns is six
\* decimal digits and was not in the directory; every entry that was in the
\* directory, but for the sender's prior one, is still there unchanged.
C8_UniquePairKeys ==
    [][event'.type = "pair-device-initiate"
        => \E i \in 1..Len(out') :
             /\ out'[i].type = "pair-device-initiated"
             /\ LET k == out'[i].pairKey
                IN  /\ Len(k) = 6
                    /\ \A j \in 1..Len(k) : k[j] \in 0..9
                    /\ k \notin DOMAIN roomSecrets
                    /\ k \in DOMAIN roomSecrets'
                    /\ roomSecrets'[k].creator = event'.conn
                    /\ \A q \in (DOMAIN roomSecrets) \ {peers[event'.conn].pairKey} :
                          q \in DOMAIN roomSecrets' /\ roomSecrets'[q] = roomSecrets[q]]_vars

\* An initiate has been given a key while another peer's key is live.
C8_Witness ==
    /\ event.type = "pair-device-initiate"
    /\ HasFrame(out, event.conn, "pair-device-initiated")
    /\ peers[event.conn].pairKey \in DOMAIN roomSecrets
    /\ Cardinality(DOMAIN roomSecrets) >= 2

\* C9: heartbeat liveness.  An open connection was heard from (accepted, or
\* its last pong) no longer than 3 keep-alive periods ago.
C9_HeartbeatLiveness ==
    \A c \in Conns : IsOpen(c) => now - heard[c] <= 3 * Timeout

\* C10: pair-device roundtrip.  A pair-device-join that is not rate-limited,
\* with a key of the directory whose creator is another peer: sender and
\* creator are sent pair-device-joined with the entry's secret and each
\* other's id, the key leaves the directory, and the sender is an occupant of
\* the secret room; CreatorToo states what holds of the creator.
RoundTrip(CreatorToo(_, _)) ==
    LET k == event'.pairKey
        b == event'.conn
    IN  (/\ event'.type = "pair-device-join"
         /\ ~event'.limited
         /\ k \in DOMAIN roomSecrets
         /\ IdOf(roomSecrets[k].creator) # IdOf(b))
        => LET a == roomSecrets[k].creator
               secret == roomSecrets[k].roomSecret
           IN  /\ \E i \in 1..Len(out') :
                     /\ out'[i].to = b
                     /\ out'[i].type = "pair-device-joined"
                     /\ out'[i].roomSecret = secret
                     /\ out'[i].peerId = IdOf(a)
               /\ \E i \in 1..Len(out') :
                     /\ out'[i].to = a
                     /\ out'[i].type = "pair-device-joined"
                     /\ out'[i].roomSecret = secret
                     /\ out'[i].peerId = IdOf(b)
               /\ k \notin DOMAIN roomSecrets'
               /\ IsOccupant(rooms', secret, b)
               /\ CreatorToo(a, secret)

\* C10 as stated: the creator is an occupant of the secret room afterwards.
CreatorIsOccupant(a, secret) == IsOccupant(rooms', secret, a)

C10_RoundTripAsStated == [][RoundTrip(CreatorIsOccupant)]_vars

\* C10 as amended: the creator is an occupant of the secret room afterwards
\* exactly if it was one before the join.
CreatorUnchanged(a, secret) == IsOccupant(rooms', secret, a) <=> IsOccupant(rooms, secret, a)

C10_RoundTrip == [][RoundTrip(CreatorUnchanged)]_vars

\* A join has paired two peers that now share the secret room.
C10_Witness ==
    /\ event.type = "pair-device-join"
    /\ \E i \in 1..Len(out), j \in 1..Len(out) :
          /\ i # j
          /\ out[i].type = "pair-device-joined"
          /\ out[j].type = "pair-device-joined"
          /\ out[i].to # out[j].to
          /\ IsOccupant(rooms, out[i].roomSecret, out[i].to)
          /\ IsOccupant(rooms, out[i].roomSecret, out[j].to)

\* C11: self-pair and invalid-key rejection.  A pair-device-join that is not
\* rate-limited, with a key that is not in the directory or whose creator has
\* the sender's id, sends the sender pair-device-join-key-invalid and nothing
\* else, and changes neither the directory, nor the registry, nor any peer.
C11_InvalidKeyRejected ==
    [][(/\ event'.type = "pair-device-join"
        /\ ~event'.limited
        /\ \/ event'.pairKey \notin DOMAIN roomSecrets
           \/ IdOf(roomSecrets[event'.pairKey].creator) = IdOf(event'.conn))
       => /\ Len(out') = 1
          /\ out'[1].to = event'.conn
          /\ out'[1].type = "pair-device-join-key-invalid"
          /\ roomSecrets' = roomSecrets
          /\ rooms' = rooms
          /\ peers' = peers]_vars

\* The creator of a key has tried to join with it, and the key is still there.
C11_Witness ==
    /\ event.type = "pair-device-join"
    /\ ~event.limited
    /\ event.pairKey \in DOMAIN roomSecrets
    /\ roomSecrets[event.pairKey].creator = event.conn
    /\ HasFrame(out, event.conn, "pair-device-join-key-invalid")

\* The room a relayed message resolves to: the sender's IP for roomType 'ip'
\* (the byte 'i' of a binary frame), otherwise the room id it names.
ResolvedRoom(ev) ==
    IF ev.type = "binary"
    THEN (IF ev.roomType = "i" THEN IpOf(ev.conn) ELSE Trim(ev.roomId))
    ELSE ToKey(IF ev.roomType = "ip" THEN IpOf(ev.conn) ELSE ev.roomId)

\* The event is a signal, or a relay type on an instance with wsFallback.
IsRelayed(ev) == ev.type = "signal" \/ (ev.type \in RelayTypes /\ wsFallback)

\* C12: relay strips and tags.  A signal or enabled relay-type message is
\* passed on if and only if message.to is a UUID-shaped id of an occupant of
\* the resolved room; it then goes to that occupant only, without 'to' and
\* with the sender's {id, rtcSupported}; otherwise nothing is sent; the
\* registry and the directory do not change.
C12_RelayStripsAndTags ==
    [][IsRelayed(event')
        => /\ rooms' = rooms
           /\ roomSecrets' = roomSecrets
           /\ IF IsValidUuid(event'.to) /\ OccupantId(rooms, ResolvedRoom(event'), event'.to)
              THEN /\ Len(out') = 1
                   /\ IdOf(out'[1].to) = event'.to
                   /\ IsOccupant(rooms, ResolvedRoom(event'), out'[1].to)
                   /\ out'[1].type = event'.type
                   /\ out'[1].msgTo = Undefined
                   /\ out'[1].sender = <<IdOf(event'.conn), RtcSupported(event'.conn)>>
              ELSE out' = <<>>]_vars

\* A signal has been written to another peer of the sender's room.
C12_Witness ==
    /\ event.type = "signal"
    /\ Len(out) = 1
    /\ out[1].written
    /\ out[1].to # event.conn
    /\ IsOccupant(rooms, ResolvedRoom(event), event.conn)

\* C13: relay stays inside a room.  A signal, a relay-type message or a
\* binary frame is passed to a recipient only if the sender and the recipient
\* are both occupants of the resolved room.
C13_RelayInsideRoom ==
    [][(event'.type \in {"signal", "binary"} \cup RelayTypes)
        => \A i \in 1..Len(out') :
              /\ IsOccupant(rooms, ResolvedRoom(event'), out'[i].to)
              /\ IsOccupant(rooms, ResolvedRoom(event'), event'.conn)]_vars

\* C14: wsFallback gating.  With wsFallback off no relay-type message and no
\* binary frame is passed on, whatever its room and recipient; a signal to an
\* occupant of the resolved room is passed on with wsFallback on and off.
C14_WsFallbackGating ==
    [][/\ (~wsFallback /\ event'.type \in RelayTypes \cup {"binary"}) => out' = <<>>
       /\ (/\ event'.type = "signal"
           /\ IsValidUuid(event'.to)
           /\ OccupantId(rooms, ResolvedRoom(event'), event'.to)) => Len(out') = 1]_vars

\* With wsFallback off, a relay-type message for an occupant of the sender's
\* room has been dropped; the peers stay in the room.
C14_Witness ==
    /\ ~wsFallback
    /\ event.type \in RelayTypes
    /\ out = <<>>
    /\ OccupantId(rooms, ResolvedRoom(event), event.to)
    /\ IsOccupant(rooms, ResolvedRoom(event), event.conn)
    /\ IdOf(event.conn) # event.to

\* The key is an IP address of a connection.
IsIpKey(key) == \E c \in Conns : key = IpOf(c)

\* The key is 5 characters minted for a public room.
IsPublicKey(key) == key \in PublicIds /\ StrLen(key) = 5

\* C15: disjoint room namespaces.  All occupants of a registry entry entered
\* it under the same type tag, and an entry with an occupant under type
\* 'public-id' is keyed by a public room id: 5 characters, no IP address and
\* no room secret.
C15_DisjointNamespaces ==
    \A key \in DOMAIN rooms :
        /\ \A e1 \in Entries(rooms, key), e2 \in Entries(rooms, key) : e1.tag = e2.tag
        /\ \A e \in Entries(rooms, key) :
              e.tag = "public-id"
                => /\ ~IsIpKey(key)
                   /\ ~ValidRoomSecret(key)
                   /\ IsPublicKey(key)

\* C16: rate limiting.  A pair-device-join or join-public-room of a sender
\* whose rateLimitReached() is true sends the sender join-key-rate-limit and
\* nothing else and changes neither the registry, nor the directory, nor any
\* peer, whatever key or room id it names; no other message consults the
\* rate limiter.
C16_RateLimited ==
    [][event'.limited
        => /\ event'.type \in {"pair-device-join", "join-public-room"}
           /\ Len(out') = 1
           /\ out'[1].to = event'.conn
           /\ out'[1].type = "join-key-rate-limit"
           /\ rooms' = rooms
           /\ roomSecrets' = roomSecrets
           /\ peers' = peers]_vars

\* A rate-limited sender has named a key of the directory that another peer
\* created.
C16_Witness ==
    /\ event.limited
    /\ event.type = "pair-device-join"
    /\ event.pairKey \in DOMAIN roomSecrets
    /\ IdOf(roomSecrets[event.pairKey].creator) # IdOf(event.conn)
    /\ HasFrame(out, event.conn, "join-key-rate-limit")

\* The frames of the given type about room key that frames holds for o.
RoomFrames(frames, o, type, key) ==
    SelectSeq(frames, LAMBDA f: f.to = o /\ f.type = type /\ f.roomId = key)

\* The ids of the occupants of key other than id.
OtherIds(rms, key, id) == {e.id : e \in Entries(rms, key)} \ {id}

\* The handler of connection c has joined c to room key: c is sent a snapshot
\* of the room, or has become an occupant of it.
HasJoined(c, key) ==
    /\ event'.conn = c
    /\ \/ RoomFrames(out', c, "peers", key) # <<>>
       \/ IsOccupant(rooms', key, c) /\ ~IsOccupant(rooms, key, c)

\* C17: join notifications.  On a join of a peer to a room every other
\* occupant is sent exactly one peer-joined for it, the peer is sent exactly
\* one 'peers' snapshot that lists exactly the other occupants and not
\* itself, the peer is not sent its own peer-joined, and it is an occupant
\* afterwards.
C17_JoinNotifications ==
    [][\A c \in Conns, key \in AllKeys :
          HasJoined(c, key)
            => LET snapshots == RoomFrames(out', c, "peers", key)
                   others == OtherIds(rooms, key, IdOf(c))
               IN  /\ Len(snapshots) = 1
                   /\ {snapshots[1].peers[i] : i \in 1..Len(snapshots[1].peers)} = others
                   /\ Len(snapshots[1].peers) = Cardinality(others)
                   /\ \A e \in Entries(rooms, key) :
                         e.id # IdOf(c)
                           => Len(SelectSeq(RoomFrames(out', e.peer, "peer-joined", key),
                                            LAMBDA f: f.peerId = IdOf(c))) = 1
                   /\ \A i \in 1..Len(out') :
                         (out'[i].type = "peer-joined" /\ out'[i].peerId = IdOf(c))
                            => IdOf(out'[i].to) # IdOf(c)
                   /\ IsOccupant(rooms', key, c)]_vars

\* A peer has joined a room with another occupant and got the snapshot.
C17_Witness ==
    \E key \in DOMAIN rooms :
        /\ event.type = "room-secrets"
        /\ IsOccupant(rooms, key, event.conn)
        /\ Len(RoomFrames(out, event.conn, "peers", key)) = 1
        /\ RoomFrames(out, event.conn, "peers", key)[1].peers # <<>>
        /\ \E i \in 1..Len(out) : out[i].type = "peer-joined" /\ out[i].roomId = key

\* The rooms a leave is asked for: every entry of the registry, a key that has
\* no entry, and a roomId the caller never set.
LeaveRooms == (DOMAIN rooms) \cup {"S2", "absent", Undefined}

RoomTypes == {"ip", "secret", "public-id"}

\* C18: leave idempotence.  _leaveRoom for a peer whose id the entry does not
\* hold (the entry may not exist) changes nothing and sends nothing; and a
\* second _leaveRoom, _leaveSecretRoom or _leavePublicRoom right after the
\* first leaves the registry, the peers and the messages as the first did.
C18_LeaveIdempotence ==
    \A c \in Conns, disconnect \in BOOLEAN :
        /\ \A roomType \in RoomTypes, roomId \in LeaveRooms :
              LET once == _leaveRoom(State, c, roomType, roomId, disconnect)
              IN  /\ ~HasEntry(State, ToKey(roomId), IdOf(c)) => once = State
                  /\ _leaveRoom(once, c, roomType, roomId, disconnect) = once
        /\ \A roomSecret \in LeaveRooms :
              LET once == _leaveSecretRoom(State, c, roomSecret, disconnect)
              IN  _leaveSecretRoom(once, c, roomSecret, disconnect) = once
        /\ LET once == _leavePublicRoom(State, c, disconnect)
           IN  _leavePublicRoom(once, c, disconnect) = once

\* A leave has sent peer-left to an open connection, the peer it names is in
\* the room no more, and the room is still there with its other occupants.
C18_Witness ==
    \E i \in 1..Len(out) :
        /\ out[i].type = "peer-left"
        /\ out[i].written
        /\ RoomExists(State, out[i].roomId)
        /\ ~HasEntry(State, out[i].roomId, out[i].peerId)

\* The frames the handler passed to _send for connection c, in order.
FramesTo(frames, c) == SelectSeq(frames, LAMBDA m: m.to = c)

TypesOf(frames) == [i \in 1..Len(frames) |-> frames[i].type]

Written(frames) == \A i \in 1..Len(frames) : frames[i].written

Disconnected(c) == event'.conn = c /\ event'.type \in {"disconnect", "close"}

\* The peer-left frames with disconnect = true about peerId id in room key
\* that frames holds for connection o.
LeftOnDisconnect(frames, o, id, key) ==
    SelectSeq(frames, LAMBDA m:
        /\ m.to = o
        /\ m.type = "peer-left"
        /\ m.peerId = id
        /\ m.roomId = key
        /\ m.disconnect)

\* After _disconnect: the pair key is out of the directory, the keep-alive
\* record is dropped, and the socket is not open.
Released(c) ==
    /\ peers[c].pairKey \notin DOMAIN roomSecrets'
    /\ peers'[c].pairKey = NoKey
    /\ IdOf(c) \notin DOMAIN keepAliveTimers'
    /\ peers'[c].readyState # OPEN

\* Every other occupant of every room c occupied is passed one peer-left
\* about c with disconnect = true, and c occupies no room afterwards.
AllNotified(c) ==
    /\ \A key \in RoomsOf(rooms, c) :
          \A e \in Entries(rooms, key) :
              e.id # IdOf(c) =>
                  Len(LeftOnDisconnect(out', e.peer, IdOf(c), key)) = 1
    /\ RoomsOf(rooms', c) = {}

\* No peer-left is emitted by the 'close' of a socket the server terminated.
NoneAfterTerminate(c) ==
    (event'.type = "close" /\ peers[c].readyState = CLOSING) =>
        \A i \in 1..Len(out') : out'[i].type # "peer-left"

\* C20: disconnect ordering.  disconnect(P) removes P's pair key from the
\* directory, drops P's keep-alive record, leaves the IP room, the secret
\* rooms and the public room, and terminates the socket; every remaining
\* occupant of every room P occupied is sent peer-left for P with
\* disconnect = true, all of them before the socket is terminated.
C20_DisconnectOrdering ==
    [][\A c \in Conns :
          Disconnected(c) => Released(c) /\ AllNotified(c) /\ NoneAfterTerminate(c)]_vars

\* lastBeat of the record the tick of c reads: a record that is missing is
\* made with lastBeat = Date.now().
LastBeatRead(c) ==
    IF IdOf(c) \in DOMAIN keepAliveTimers THEN keepAliveTimers[IdOf(c)].lastBeat ELSE now

\* C21: keep-alive tick rule.  A tick for a peer disconnects it and schedules
\* no further tick exactly when now - lastBeat is more than 2 periods;
\* otherwise it pings the peer and schedules the next tick one period later;
\* a pong sets lastBeat to now.
C21_TickRule ==
    [][\A c \in Conns :
          /\ (event'.type = "keep-alive" /\ event'.conn = c /\ IsOpen(c)) =>
                IF now - LastBeatRead(c) > 2 * Timeout
                THEN /\ ~HasFrame(out', c, "ping")
                     /\ timers'[c] = NoTimer
                     /\ peers'[c].readyState # OPEN
                ELSE /\ HasFrame(out', c, "ping")
                     /\ timers'[c] = now + Timeout
                     /\ peers'[c].readyState = OPEN
          /\ (event'.type = "pong" /\ event'.conn = c /\ IdOf(c) \in DOMAIN keepAliveTimers) =>
                keepAliveTimers'[IdOf(c)].lastBeat = now]_vars

\* The connections of peerId id with a keep-alive callback pending.
Pending(tm, id) == {c \in Conns : IdOf(c) = id /\ tm[c] # NoTimer}

\* C22: no duplicate timers.  After every step a peer has at most one
\* keep-alive tick pending, a connection that is closing or closed has none,
\* and the step in which a connection stops being open leaves no keep-alive
\* record under its peerId.
C22_NoDuplicateTimers ==
    [][/\ \A id \in Ids : Cardinality(Pending(timers', id)) <= 1
       /\ \A c \in Conns :
             /\ peers'[c].readyState \in {CLOSING, CLOSED} => timers'[c] = NoTimer
             /\ (IsOpen(c) /\ peers'[c].readyState # OPEN) =>
                    IdOf(c) \notin DOMAIN keepAliveTimers']_vars

\* A tick found its peer overdue and disconnected it: the peer's socket is
\* terminated, no tick is pending and its record is gone.
C22_Witness ==
    /\ event.type = "keep-alive"
    /\ peers[event.conn].readyState = CLOSING
    /\ timers[event.conn] = NoTimer
    /\ IdOf(event.conn) \notin DOMAIN keepAliveTimers

\* Connection c has a keep-alive record and a tick pending.
Supervised(recs, tm, c) == IdOf(c) \in DOMAIN recs /\ tm[c] # NoTimer

\* The disconnect of connection c leaves the tick and the record of every
\* other connection that stays open as they were.
SparesOthers(c) ==
    \A d \in Conns \ {c} :
        (IsOpen(d) /\ peers'[d].readyState = OPEN /\ Supervised(keepAliveTimers, timers, d)) =>
            /\ timers'[d] = timers[d]
            /\ IdOf(d) \in DOMAIN keepAliveTimers'

\* C23: keep-alive co-terminates with its peer.  After every step each open
\* connection has a keep-alive record and a pending tick, and the disconnect
\* of one connection takes neither from another open connection, one of the
\* same peerId included.
C23_CoTermination ==
    [][\A c \in Conns :
          /\ peers'[c].readyState = OPEN => Supervised(keepAliveTimers', timers', c)
          /\ Disconnected(c) => SparesOthers(c)]_vars

\* The keys of the directory dir whose creator is connection c.
KeysOf(dir, c) == {k \in DOMAIN dir : dir[k].creator = c}

\* The pair-device-canceled frames for connection c, by the key they carry.
Canceled(frames, c) ==
    LET sel == SelectSeq(frames, LAMBDA m: m.to = c /\ m.type = "pair-device-canceled")
    IN  [i \in 1..Len(sel) |-> sel[i].pairKey]

\* C24: pair-key lifetime.  A directory entry is gone after a successful
\* pair-device-join on it, after its creator's pair-device-cancel (answered
\* with pair-device-canceled and the key; a peer without a key is answered
\* nothing and nothing changes), after its creator's disconnect, and after a
\* new pair-device-initiate of its creator; the directory holds at most one
\* entry per creator and none whose creator is not open.
C24_PairKeyLifetime ==
    [][\A c \in Conns :
          LET held == peers[c].pairKey
              k == event'.pairKey
          IN  /\ (/\ event'.type = "pair-device-join" /\ event'.conn = c /\ ~event'.limited
                  /\ k \in DOMAIN roomSecrets
                  /\ IdOf(roomSecrets[k].creator) # IdOf(c)) => k \notin DOMAIN roomSecrets'
              /\ (event'.type = "pair-device-cancel" /\ event'.conn = c) =>
                    IF held # NoKey
                    THEN held \notin DOMAIN roomSecrets' /\ Canceled(out', c) = <<held>>
                    ELSE out' = <<>> /\ roomSecrets' = roomSecrets /\ peers' = peers
              /\ Disconnected(c) => held \notin DOMAIN roomSecrets'
              /\ (event'.type = "pair-device-initiate" /\ event'.conn = c) =>
                    held \notin DOMAIN roomSecrets'
              /\ Cardinality(KeysOf(roomSecrets', c)) <= 1
              /\ KeysOf(roomSecrets', c) # {} => peers'[c].readyState = OPEN]_vars

\* A peer has started a second pairing (it is in the rooms of both): the
\* directory holds its new key and no other key of it.
C24_Witness ==
    /\ event.type = "pair-device-initiate"
    /\ KeysOf(roomSecrets, event.conn) = {peers[event.conn].pairKey}
    /\ Len(peers[event.conn].roomSecrets) >= 2

\* The frames of one type carrying roomSecret s that frames holds for
\* connection o.
SecretFrames(frames, o, type, s) ==
    SelectSeq(frames, LAMBDA m: m.to = o /\ m.type = type /\ m.roomSecret = s)

\* C25: room-secrets-deleted.  For a listed secret that names a room, every
\* occupant the room had is out of it (the entry is gone and the secret is in
\* none of their roomSecrets) and is sent one secret-room-deleted with the
\* secret; a secret that names no room changes nothing and sends nothing.
C25_RoomSecretsDeleted ==
    [][event'.type = "room-secrets-deleted" =>
        LET s == event'.roomId
            key == ToKey(s)
        IN  IF key \in DOMAIN rooms
            THEN /\ key \notin DOMAIN rooms'
                 /\ \A e \in Entries(rooms, key) :
                       /\ ~InSeq(s, peers'[e.peer].roomSecrets)
                       /\ Len(SecretFrames(out', e.peer, "secret-room-deleted", s)) = 1
                 /\ \A o \in Conns :
                       ~IsOccupant(rooms, key, o) =>
                           SecretFrames(out', o, "secret-room-deleted", s) = <<>>
            ELSE /\ out' = <<>>
                 /\ rooms' = rooms
                 /\ peers' = peers
                 /\ roomSecrets' = roomSecrets]_vars

\* A room of two occupants was deleted and both were told.
C25_Witness ==
    /\ event.type = "room-secrets-deleted"
    /\ ToKey(event.roomId) \notin DOMAIN rooms
    /\ \E o, q \in Conns :
          /\ o # q
          /\ SecretFrames(out, o, "secret-room-deleted", event.roomId) # <<>>
          /\ SecretFrames(out, q, "secret-room-deleted", event.roomId) # <<>>

\* The room-secret-regenerated frames for connection o, each as the pair
\* <<oldRoomSecret, newRoomSecret>> it carries.
Regenerated(frames, o) ==
    LET sel == SelectSeq(frames, LAMBDA m: m.to = o /\ m.type = "room-secret-regenerated")
    IN  [i \in 1..Len(sel) |-> <<sel[i].roomId, sel[i].roomSecret>>]

\* C26: regenerate-room-secret.  Every occupant of the old room is sent
\* room-secret-regenerated with one and the same pair of old and new secret
\* and has the old secret no more; the old entry is gone, the new secret has
\* no entry, and every other room and the directory are as before.
C26_RegenerateRoomSecret ==
    [][event'.type = "regenerate-room-secret" =>
        LET s == event'.roomId
            key == ToKey(s)
        IN  /\ \E n \in MintedSecrets :
                  /\ n # s
                  /\ ToKey(n) \notin DOMAIN rooms'
                  /\ \A o \in Conns :
                        Regenerated(out', o) =
                            IF IsOccupant(rooms, key, o) THEN << <<s, n>> >> ELSE <<>>
            /\ \A e \in Entries(rooms, key) : ~InSeq(s, peers'[e.peer].roomSecrets)
            /\ key \notin DOMAIN rooms'
            /\ DOMAIN rooms' = (DOMAIN rooms) \ {key}
            /\ \A k \in DOMAIN rooms' : rooms'[k] = rooms[k]
            /\ roomSecrets' = roomSecrets
            /\ \A i \in 1..Len(out') : out'[i].type = "room-secret-regenerated"]_vars

\* The secret of a room of two occupants was regenerated and both were told.
C26_Witness ==
    /\ event.type = "regenerate-room-secret"
    /\ ToKey(event.roomId) \notin DOMAIN rooms
    /\ \E o, q \in Conns : o # q /\ Regenerated(out, o) # <<>> /\ Regenerated(out, q) # <<>>

\* The peer-left frames about peerId id in room key that frames holds for
\* connection o.
LeftFrames(frames, o, id, key) ==
    SelectSeq(frames, LAMBDA m:
        m.to = o /\ m.type = "peer-left" /\ m.peerId = id /\ m.roomId = key)

\* C27: join-public-room.  A request that is not rate-limited, for a room
\* that is absent, without createIfInvalid: the sender is sent
\* public-room-id-invalid and registry and peers are unchanged.  Any other:
\* the sender leaves its current public room, whose other occupants are sent
\* peer-left, and is an occupant of the requested room with its publicRoomId
\* set to it.
C27_JoinPublicRoom ==
    [][(event'.type = "join-public-room" /\ ~event'.limited) =>
        LET c == event'.conn
            id == event'.roomId
            key == ToKey(id)
        IN  IF key \notin DOMAIN rooms /\ ~event'.flag
            THEN /\ Len(out') = 1
                 /\ out'[1].to = c
                 /\ out'[1].type = "public-room-id-invalid"
                 /\ rooms' = rooms
                 /\ peers' = peers
            ELSE /\ \A old \in PublicRoomsOf(c) :
                       /\ old # key => ~IsOccupant(rooms', old, c)
                       /\ \A e \in Entries(rooms, old) :
                             e.id # IdOf(c) =>
                                 Len(LeftFrames(out', e.peer, IdOf(c), old)) = 1
                 /\ IsOccupant(rooms', key, c)
                 /\ peers'[c].publicRoomId = id]_vars

\* C28: binary relay conditions.  With wsFallback on, a binary frame is
\* passed on if and only if its recipient id is UUID-shaped, the room its
\* marker and room field select exists, the recipient id has an entry in that
\* room and the socket of that entry is open; it then goes to that entry
\* only, as a binary frame without the header; otherwise nothing is sent; no
\* state changes either way.
C28_BinaryRelay ==
    [][(event'.type = "binary" /\ wsFallback) =>
        LET room == ResolvedRoom(event')
            open == {e \in Entries(rooms, room) :
                        e.id = event'.to /\ peers[e.peer].readyState = OPEN}
        IN  /\ rooms' = rooms
            /\ peers' = peers
            /\ roomSecrets' = roomSecrets
            /\ keepAliveTimers' = keepAliveTimers
            /\ timers' = timers
            /\ IF IsValidUuid(event'.to) /\ open # {}
               THEN /\ Len(out') = 1
                    /\ \E e \in open : out'[1].to = e.peer
                    /\ out'[1].binary
                    /\ out'[1].written
                    /\ out'[1].msgTo = Undefined
                    /\ out'[1].roomType = ""
                    /\ out'[1].roomId = ""
                    /\ out'[1].sender = NoSender
               ELSE out' = <<>>]_vars

\* A binary frame was passed from one occupant of a room to another.
C28_Witness ==
    /\ wsFallback
    /\ event.type = "binary"
    /\ Len(out) = 1
    /\ out[1].binary
    /\ out[1].to # event.conn
    /\ IsOccupant(rooms, ResolvedRoom(event), event.conn)

\* The secrets of the model that _onRoomSecrets accepts as room keys.
AcceptedSecrets == {s \in StoredSecrets \cup MintedSecrets : ValidRoomSecret(s)}

\* C29: binary relay reaches every secret room.  With wsFallback on, for
\* every secret S accepted as a room key: a binary frame with marker 's'
\* whose room field names S, from an occupant of room S to another occupant
\* whose socket is open, is passed to that occupant.
C29_BinaryReachesSecretRooms ==
    [][\A S \in AcceptedSecrets :
          \A e \in Entries(rooms, S) :
              (/\ event'.type = "binary"
               /\ wsFallback
               /\ event'.roomType = "s"
               /\ event'.roomId = Slice64(S)
               /\ IsOccupant(rooms, S, event'.conn)
               /\ e.id = event'.to
               /\ e.peer # event'.conn
               /\ peers[e.peer].readyState = OPEN)
                  => /\ Len(out') = 1
                     /\ out'[1].to = e.peer
                     /\ out'[1].binary
                     /\ out'[1].written]_vars

\* The step is the 'close' event of connection c, and the event before it
\* was the handler that terminated c's socket through _disconnect: a
\* 'disconnect' message of c, or a tick that found c overdue.
SecondDisconnect(c) ==
    /\ event.conn = c
    /\ event.type \in {"disconnect", "keep-alive"}
    /\ peers[c].readyState = CLOSING
    /\ event'.conn = c
    /\ event'.type = "close"

\* C30: disconnect is idempotent.  The _disconnect run by the 'close' event
\* that directly follows a _disconnect of the same connection sends no
\* peer-left and leaves the registry, the pair-key directory and the
\* keep-alive table as they were.
C30_DisconnectIdempotent ==
    [][\A c \in Conns :
          SecondDisconnect(c) =>
              /\ \A i \in 1..Len(out') : out'[i].type # "peer-left"
              /\ rooms' = rooms
              /\ roomSecrets' = roomSecrets
              /\ keepAliveTimers' = keepAliveTimers]_vars

====
